---- MODULE Spec2Model ----
(***************************************************************************)
(* State-machine model of src/src/App.jsx (the ScreenerOn front end).      *)
(*                                                                         *)
(* React component state is modelled by one variable per useState hook.   *)
(* The text fields of LoginScreen are only read by the submit handlers, so *)
(* their contents are the inputs of those handlers.                        *)
(* A component that is not mounted holds the value its hook is created    *)
(* with, so mounting it again starts from that value (React discards the  *)
(* state of an unmounted component).                                       *)
(*                                                                         *)
(* JavaScript objects are functions from property names to values; a      *)
(* property that is absent is absent from the DOMAIN (so {} is the empty  *)
(* function).  Magnitudes are kept in tenths (2 is 20, 1.5 is 15) so that *)
(* they stay integers.                                                     *)
(***************************************************************************)
EXTENDS Integers, Sequences, FiniteSets, TLC

VARIABLES
    isAuthenticated,    \* App
    activeTab,          \* App
    savedStrategies,    \* App
    loginView,          \* LoginScreen.view
    error,              \* LoginScreen
    view,               \* MyStrategiesPage
    strategyToEdit,     \* MyStrategiesPage
    strategyName,       \* StrategyBuilder
    strategyType,       \* StrategyBuilder
    entryConditions,    \* StrategyBuilder
    exitStrategy,       \* StrategyBuilder
    rows,               \* the ConditionRow state of each rendered builder row
    btExitStrategy,     \* Backtester.exitStrategy
    results,            \* Screener
    scanConditions,     \* Screener
    scanRows,           \* the ConditionRow state of each rendered Screener row
    result,             \* Backtester
    tradeSide,          \* Backtester
    assetType,          \* Backtester
    btEntryConditions,  \* Backtester.entryConditions
    btRows,             \* the ConditionRow state of each rendered Backtester row
    activeSessions,     \* PaperTradingPage
    profileIsSaved,     \* ProfilePage.isSaved
    settingsIsSaved,    \* SettingsPage.isSaved
    timers,             \* the pending setTimeout callbacks
    now,                \* the value Date.now() returns
    edits               \* number of draft and row edits made so far (exploration bound)

appVars     == <<isAuthenticated, activeTab, savedStrategies>>
loginVars   == <<loginView, error>>
pageVars    == <<view, strategyToEdit>>
builderVars == <<strategyName, strategyType, entryConditions, exitStrategy, rows>>
screenerVars == <<results, scanConditions, scanRows>>
backtesterVars == <<result, tradeSide, assetType, btEntryConditions, btRows>>
bannerVars == <<profileIsSaved, settingsIsSaved, timers>>
pageLocal == <<screenerVars, backtesterVars, activeSessions, bannerVars>>
vars == <<isAuthenticated, activeTab, savedStrategies, loginView, error, view, strategyToEdit, strategyName, strategyType,
          entryConditions, exitStrategy, rows, btExitStrategy, results, scanConditions, scanRows, result, tradeSide,
          assetType, btEntryConditions, btRows, activeSessions, profileIsSaved, settingsIsSaved, timers, now, edits>>

(***************************************************************************)
(* Bounds of the exploration.                                              *)
(***************************************************************************)
MaxStrategies == 2      \* longest savedStrategies explored
MaxConditions == 2      \* longest entryConditions explored
MaxClock == 4           \* last clock value explored
MaxEdits == 1           \* draft and row edits explored in one behaviour
MaxTimers == 2          \* most setTimeout callbacks pending at once
MaxScanConditions == 3  \* longest scanConditions explored


(***************************************************************************)
(* Inputs the user can type or select.                                     *)
(***************************************************************************)
NameInputs == {"S"}
CredentialInputs == {"admin", "guest"}
MagnitudeTexts == {""}
UnitInputs == {"points"}
TabInputs == {"dashboard", "backtest", "strategy"}
IndicatorInputs == {"RSI"}
OperatorInputs == {"Crosses above"}
PageTabInputs == {"dashboard", "screener", "backtest", "strategy",
                  "papertrade"}
BannerTabInputs == {"dashboard", "settings", "profile"}

(***************************************************************************)
(* JavaScript values.                                                      *)
(***************************************************************************)
EmptyObj == [k \in {} |-> 0]
Null == [null |-> TRUE]

\* {...o, k: v}
Spread(o, k, v) == (k :> v) @@ o

\* parseFloat on the texts of MagnitudeTexts, in tenths; nan marks NaN.
parseFloat(text) ==
    CASE text = "3"  -> [nan |-> FALSE, v |-> 30]
      [] text = "-1" -> [nan |-> FALSE, v |-> -10]
      [] text = "0"  -> [nan |-> FALSE, v |-> 0]
      [] OTHER       -> [nan |-> TRUE, v |-> 0]

\* parseFloat(e.target.value) || 0 : NaN and 0 are falsy
parseFloatOrZero(text) ==
    LET p == parseFloat(text)
    IN  IF p.nan \/ p.v = 0 THEN 0 ELSE p.v

(***************************************************************************)
(* Data of the application.                                                *)
(***************************************************************************)
seededStrategies ==
    << [id |-> 1, name |-> "EMA Crossover", strategyType |-> "buy",
        entryConditions |-> <<>>, exitStrategy |-> EmptyObj],
       [id |-> 2, name |-> "RSI Momentum", strategyType |-> "sell",
        entryConditions |-> <<>>, exitStrategy |-> EmptyObj] >>

\* The condition StrategyBuilder starts a new draft with, and the one its
\* addCondition appends (with id Date.now()).
builderCondition(id) ==
    [id |-> id, property |-> "Close", operator |-> "greater_than",
     valueType |-> "indicator", valueProperty |-> "EMA",
     valueParams |-> [period |-> 20], candle |-> 0]

\* The conditions Screener starts with
screenerConditions ==
    << [id |-> 1, type |-> "indicator", property |-> "Close",
        operator |-> "greater_than", valueType |-> "indicator",
        valueProperty |-> "EMA", valueParams |-> [period |-> 20],
        candle |-> 0],
       [id |-> 2, type |-> "indicator", property |-> "Volume",
        operator |-> "greater_than", valueType |-> "number",
        valueProperty |-> "100000", valueParams |-> EmptyObj,
        candle |-> 0] >>

\* The condition Screener.addCondition appends
screenerCondition(id) ==
    [id |-> id, type |-> "indicator", property |-> "RSI",
     operator |-> "less_than", valueType |-> "number",
     valueProperty |-> "30", valueParams |-> [period |-> 14], candle |-> 0]

\* The condition Backtester starts with (id 1) and the one its addCondition
\* appends (id Date.now())
backtesterCondition(id) ==
    [id |-> id, type |-> "indicator", property |-> "Close",
     operator |-> "greater_than", valueType |-> "indicator",
     valueProperty |-> "EMA", valueParams |-> [period |-> 20], candle |-> 0]

\* the symbols of the rows of mockScreenerResults
mockScreenerResults == <<"WIPRO", "BAJFINANCE", "ITC", "ADANIENT">>

\* mockBacktestResult, by its scalar metrics (ratios in hundredths)
mockBacktestResult ==
    [trades |-> 42, profitFactor |-> 215, sharpeRatio |-> 130,
     sortinoRatio |-> 190, score |-> 850]

\* The session PaperTradingPage starts with (pnl in hundredths)
seededSessions ==
    << [id |-> 2, name |-> "RSI Momentum", status |-> "active",
        pnl |-> 125075, trades |-> 3, symbol |-> "BANKNIFTY"] >>

\* setTimeout(..., 3000), in seconds
BannerDelay == 3

defaultExitStrategy ==
    [type |-> "sl", slValue |-> 20, slUnit |-> "percent",
     tslValue |-> 15, tslUnit |-> "percent"]

units == {"percent", "points", "atr"}
indicators == {"Open", "High", "Low", "Close", "Volume", "SMA", "EMA", "RSI",
               "Supertrend"}
operators == {"Greater than", "Less than", "Equals", "Crosses above",
              "Crosses below"}
navItems == {"dashboard", "screener", "backtest", "strategy", "papertrade",
             "orders", "subscription", "settings"}

\* IndicatorWithParams: which parameters the chosen indicator needs
needsPeriod(value) == value \in {"SMA", "EMA", "RSI"}
needsSupertrendParams(value) == value = "Supertrend"

\* The params object ConditionRow hands to IndicatorWithParams, for the
\* subject and for the comparand alike.
rowParams == EmptyObj

\* One ConditionRow as it is first rendered: the useState initial values
\* and the value its operator select starts with (defaultValue; the select
\* is not bound to the condition).
initialRow(condition) ==
    [lhsIndicator |-> condition.property,
     rhsValueType |-> condition.valueType,
     rhsIndicator |-> condition.valueProperty,
     operator |-> "Greater than"]

initialRows(conditions) ==
    [k \in 1..Len(conditions) |-> initialRow(conditions[k])]

\* Date.now() starts above the ids of the seeded strategies
FirstClock == seededStrategies[2].id + 1

(***************************************************************************)
(* Initial state: nobody is logged in, every component is unmounted.       *)
(***************************************************************************)
UnmountedLogin ==
    /\ loginView' = "login"
    /\ error' = ""

UnmountedBuilder ==
    /\ strategyName' = ""
    /\ strategyType' = "buy"
    /\ entryConditions' = <<>>
    /\ exitStrategy' = EmptyObj
    /\ rows' = <<>>

\* A pending timer whose component is unmounted stays pending; its callback
\* then sets the state of a component that is gone.
timersAfterUnmount(pending) ==
    [k \in 1..Len(pending) |-> [pending[k] EXCEPT !.live = FALSE]]

UnmountedPages ==
    /\ view' = "list"
    /\ strategyToEdit' = Null
    /\ UnmountedBuilder
    /\ btExitStrategy' = defaultExitStrategy
    /\ results' = <<>>
    /\ scanConditions' = screenerConditions
    /\ scanRows' = initialRows(screenerConditions)
    /\ result' = Null
    /\ tradeSide' = "buy"
    /\ assetType' = "index"
    /\ btEntryConditions' = <<backtesterCondition(1)>>
    /\ btRows' = initialRows(<<backtesterCondition(1)>>)
    /\ activeSessions' = seededSessions
    /\ profileIsSaved' = FALSE
    /\ settingsIsSaved' = FALSE
    /\ timers' = timersAfterUnmount(timers)

Init ==
    /\ isAuthenticated = FALSE
    /\ activeTab = "dashboard"
    /\ savedStrategies = seededStrategies
    /\ loginView = "login"
    /\ error = ""
    /\ view = "list"
    /\ strategyToEdit = Null
    /\ strategyName = ""
    /\ strategyType = "buy"
    /\ entryConditions = <<>>
    /\ exitStrategy = EmptyObj
    /\ rows = <<>>
    /\ btExitStrategy = defaultExitStrategy
    /\ results = <<>>
    /\ scanConditions = screenerConditions
    /\ scanRows = initialRows(screenerConditions)
    /\ result = Null
    /\ tradeSide = "buy"
    /\ assetType = "index"
    /\ btEntryConditions = <<backtesterCondition(1)>>
    /\ btRows = initialRows(<<backtesterCondition(1)>>)
    /\ activeSessions = seededSessions
    /\ profileIsSaved = FALSE
    /\ settingsIsSaved = FALSE
    /\ timers = <<>>
    /\ now = FirstClock
    /\ edits = 0

\* Which components are on screen
LoginMounted == ~isAuthenticated
StrategiesMounted == isAuthenticated /\ activeTab = "strategy"
ListMounted == StrategiesMounted /\ view = "list"
BuilderMounted == StrategiesMounted /\ view = "builder"
BacktesterMounted == isAuthenticated /\ activeTab = "backtest"
ScreenerMounted == isAuthenticated /\ activeTab = "screener"
PaperTradingMounted == isAuthenticated /\ activeTab = "papertrade"
ProfileMounted == isAuthenticated /\ activeTab = "profile"
SettingsMounted == isAuthenticated /\ activeTab = "settings"

(***************************************************************************)
(* The clock.                                                              *)
(***************************************************************************)
Tick ==
    /\ now < MaxClock
    /\ now' = now + 1
    /\ UNCHANGED <<appVars, loginVars, pageVars, builderVars, btExitStrategy, pageLocal,
                   edits>>

(***************************************************************************)
(* LoginScreen and App.                                                    *)
(***************************************************************************)
\* a login that starts from the seeded strategies again
onLoginResettingStrategies ==
    /\ isAuthenticated' = TRUE
    /\ savedStrategies' = seededStrategies
    /\ UnmountedLogin
    /\ UNCHANGED <<activeTab, pageVars, builderVars,
                   btExitStrategy, pageLocal, now, edits>>

\* onLogin: App renders the authenticated view, LoginScreen is unmounted
onLogin ==
    /\ isAuthenticated' = TRUE
    /\ UnmountedLogin
    /\ UNCHANGED <<activeTab, savedStrategies, pageVars, builderVars,
                   btExitStrategy, pageLocal, now, edits>>

setView ==
    /\ LoginMounted
    /\ loginView' = IF loginView = "login" THEN "signup" ELSE "login"
    /\ UNCHANGED <<appVars, error, pageVars, builderVars, btExitStrategy, pageLocal, now,
                   edits>>

\* a login form that checks the username only
handleLoginAnyPassword(username, password) ==
    /\ LoginMounted
    /\ loginView = "login"
    /\ IF username = "admin"
       THEN onLogin
       ELSE /\ error' = "Invalid username or password."
            /\ UNCHANGED <<appVars, loginView, pageVars, builderVars,
                           btExitStrategy, pageLocal, now, edits>>

\* the login form submitted with these field contents
handleLogin(username, password) ==
    /\ LoginMounted
    /\ loginView = "login"
    /\ IF username = "admin" /\ password = "admin"
       THEN onLogin
       ELSE /\ error' = "Invalid username or password."
            /\ UNCHANGED <<appVars, loginView, pageVars, builderVars,
                           btExitStrategy, pageLocal, now, edits>>

\* the sign-up form submits once its required fields are filled in
handleSignUp ==
    /\ LoginMounted
    /\ loginView = "signup"
    /\ onLogin

GoogleLogin ==
    /\ LoginMounted
    /\ onLogin

\* a sign-out without setActiveTab('dashboard')
handleSignOutKeepingTab ==
    /\ isAuthenticated
    /\ isAuthenticated' = FALSE
    /\ UnmountedPages
    /\ UNCHANGED <<activeTab, savedStrategies, loginVars, now, edits>>

handleSignOut ==
    /\ isAuthenticated
    /\ isAuthenticated' = FALSE
    /\ activeTab' = "dashboard"
    /\ UnmountedPages
    /\ UNCHANGED <<savedStrategies, loginVars, now, edits>>

\* Sidebar buttons and the header's Edit Profile entry
setActiveTab(tab) ==
    /\ isAuthenticated
    /\ activeTab' = tab
    /\ IF tab = activeTab
       THEN UNCHANGED <<pageVars, builderVars, btExitStrategy, pageLocal>>
       ELSE UnmountedPages
    /\ UNCHANGED <<isAuthenticated, savedStrategies, loginVars, now, edits>>

\* a change made to the builder's draft or to a row counts as one edit
countEdit == edits < MaxEdits /\ edits' = edits + 1

(***************************************************************************)
(* MyStrategiesPage and StrategyBuilder.                                   *)
(***************************************************************************)
\* the initial values with the name read from a property the record lacks
builderInitialWithoutName(toEdit) ==
    [strategyName |-> "",
     strategyType |->
        IF toEdit = Null \/ toEdit.strategyType = "" THEN "buy"
        ELSE toEdit.strategyType,
     entryConditions |->
        IF toEdit = Null THEN <<builderCondition(1)>>
        ELSE toEdit.entryConditions,
     exitStrategy |->
        IF toEdit = Null THEN defaultExitStrategy ELSE toEdit.exitStrategy]

\* useState initial values of StrategyBuilder: strategyToEdit?.x || default.
\* '' is falsy; [] and {} are truthy, so an empty list or object is kept.
builderInitial(toEdit) ==
    [strategyName |->
        IF toEdit = Null \/ toEdit.name = "" THEN "" ELSE toEdit.name,
     strategyType |->
        IF toEdit = Null \/ toEdit.strategyType = "" THEN "buy"
        ELSE toEdit.strategyType,
     entryConditions |->
        IF toEdit = Null THEN <<builderCondition(1)>>
        ELSE toEdit.entryConditions,
     exitStrategy |->
        IF toEdit = Null THEN defaultExitStrategy ELSE toEdit.exitStrategy]

MountBuilder(toEdit) ==
    LET initial == builderInitial(toEdit)
    IN  /\ strategyName' = initial.strategyName
        /\ strategyType' = initial.strategyType
        /\ entryConditions' = initial.entryConditions
        /\ exitStrategy' = initial.exitStrategy
        /\ rows' = initialRows(initial.entryConditions)

handleCreateNew ==
    /\ ListMounted
    /\ strategyToEdit' = Null
    /\ view' = "builder"
    /\ MountBuilder(Null)
    /\ UNCHANGED <<appVars, loginVars, btExitStrategy, pageLocal, now, edits>>

handleEdit(k) ==
    /\ ListMounted
    /\ k \in 1..Len(savedStrategies)
    /\ strategyToEdit' = savedStrategies[k]
    /\ view' = "builder"
    /\ MountBuilder(savedStrategies[k])
    /\ UNCHANGED <<appVars, loginVars, btExitStrategy, pageLocal, now, edits>>

\* the filter with its test inverted
strategiesAfterDeleteInverted(strategies, id) ==
    SelectSeq(strategies, LAMBDA s : s.id = id)

\* savedStrategies.filter(s => s.id !== id)
strategiesAfterDelete(strategies, id) ==
    SelectSeq(strategies, LAMBDA s : s.id # id)

handleDelete(k) ==
    /\ ListMounted
    /\ k \in 1..Len(savedStrategies)
    /\ savedStrategies' = strategiesAfterDelete(savedStrategies,
                                                savedStrategies[k].id)
    /\ UNCHANGED <<isAuthenticated, activeTab, loginVars, pageVars,
                   builderVars, btExitStrategy, pageLocal, now, edits>>

\* The object handleSaveClick passes to onSave; id is undefined (absent)
\* for a new strategy.
draftData ==
    LET fields == [name |-> strategyName, strategyType |-> strategyType,
                   entryConditions |-> entryConditions,
                   exitStrategy |-> exitStrategy]
    IN  IF strategyToEdit = Null THEN fields
        ELSE Spread(fields, "id", strategyToEdit.id)

\* if (data.id): undefined and 0 are falsy
hasId(data) == "id" \in DOMAIN data /\ data.id # 0

\* handleSave putting a new strategy in front instead of at the end
strategiesAfterSavePrepending(strategies, data, clock) ==
    IF hasId(data)
    THEN [k \in 1..Len(strategies) |->
            IF strategies[k].id = data.id THEN data ELSE strategies[k]]
    ELSE <<Spread(data, "id", clock)>> \o strategies

\* handleSave with the test of its map inverted
strategiesAfterSaveInverted(strategies, data, clock) ==
    IF hasId(data)
    THEN [k \in 1..Len(strategies) |->
            IF strategies[k].id # data.id THEN data ELSE strategies[k]]
    ELSE Append(strategies, Spread(data, "id", clock))

\* The collection handleSave stores
strategiesAfterSave(strategies, data, clock) ==
    IF hasId(data)
    THEN [k \in 1..Len(strategies) |->
            IF strategies[k].id = data.id THEN data ELSE strategies[k]]
    ELSE Append(strategies, Spread(data, "id", clock))

\* Save button: handleSaveClick calls onSave = handleSave
handleSaveClick ==
    /\ BuilderMounted
    /\ hasId(draftData) \/ Len(savedStrategies) < MaxStrategies
    /\ savedStrategies' = strategiesAfterSave(savedStrategies, draftData, now)
    /\ view' = "list"
    /\ UnmountedBuilder
    /\ UNCHANGED <<isAuthenticated, activeTab, loginVars, strategyToEdit,
                   btExitStrategy, pageLocal, now, edits>>

\* Backtest button of the builder: it has no onClick, so pressing it runs no
\* handler, sends nothing and changes nothing
backtestButton ==
    /\ BuilderMounted
    /\ UNCHANGED vars

\* Cancel button
onCancel ==
    /\ BuilderMounted
    /\ view' = "list"
    /\ UnmountedBuilder
    /\ UNCHANGED <<appVars, loginVars, strategyToEdit, btExitStrategy, pageLocal, now,
                   edits>>

setStrategyName(text) ==
    /\ BuilderMounted
    /\ text # strategyName
    /\ countEdit
    /\ strategyName' = text
    /\ UNCHANGED <<appVars, loginVars, pageVars, strategyType,
                   entryConditions, exitStrategy, rows, btExitStrategy, pageLocal, now>>

setStrategyType(type) ==
    /\ BuilderMounted
    /\ type # strategyType
    /\ countEdit
    /\ strategyType' = type
    /\ UNCHANGED <<appVars, loginVars, pageVars, strategyName,
                   entryConditions, exitStrategy, rows, btExitStrategy, pageLocal, now>>

addCondition ==
    /\ BuilderMounted
    /\ Len(entryConditions) < MaxConditions
    /\ countEdit
    /\ entryConditions' = Append(entryConditions, builderCondition(now))
    /\ rows' = Append(rows, initialRow(builderCondition(now)))
    /\ UNCHANGED <<appVars, loginVars, pageVars, strategyName, strategyType,
                   exitStrategy, btExitStrategy, pageLocal, now>>

\* entryConditions.filter(c => c.id !== id)
conditionsAfterRemove(conditions, id) ==
    SelectSeq(conditions, LAMBDA c : c.id # id)

\* the rows that stay rendered after the conditions with this id are removed
rowsAfterRemove(conditions, rowStates, id) ==
    LET kept[i \in 0..Len(conditions)] ==
            IF i = 0 THEN <<>>
            ELSE IF conditions[i].id # id THEN Append(kept[i - 1], rowStates[i])
            ELSE kept[i - 1]
    IN  kept[Len(conditions)]

removeCondition(k) ==
    /\ BuilderMounted
    /\ k \in 1..Len(entryConditions)
    /\ countEdit
    /\ entryConditions' = conditionsAfterRemove(entryConditions,
                                                entryConditions[k].id)
    /\ rows' = rowsAfterRemove(entryConditions, rows, entryConditions[k].id)
    /\ UNCHANGED <<appVars, loginVars, pageVars, strategyName, strategyType,
                   exitStrategy, btExitStrategy, pageLocal, now>>

(***************************************************************************)
(* ConditionRow: its selects change the row's own state only.              *)
(***************************************************************************)
setLhsIndicator(k, value) ==
    /\ BuilderMounted
    /\ k \in 1..Len(rows)
    /\ value # rows[k].lhsIndicator
    /\ countEdit
    /\ rows' = [rows EXCEPT ![k].lhsIndicator = value]
    /\ UNCHANGED <<appVars, loginVars, pageVars, strategyName, strategyType,
                   entryConditions, exitStrategy, btExitStrategy, pageLocal, now>>

setRhsValueType(k, value) ==
    /\ BuilderMounted
    /\ k \in 1..Len(rows)
    /\ value # rows[k].rhsValueType
    /\ countEdit
    /\ rows' = [rows EXCEPT ![k].rhsValueType = value]
    /\ UNCHANGED <<appVars, loginVars, pageVars, strategyName, strategyType,
                   entryConditions, exitStrategy, btExitStrategy, pageLocal, now>>

\* the comparand's indicator select is rendered for rhsValueType 'indicator'
setRhsIndicator(k, value) ==
    /\ BuilderMounted
    /\ k \in 1..Len(rows)
    /\ rows[k].rhsValueType = "indicator"
    /\ value # rows[k].rhsIndicator
    /\ countEdit
    /\ rows' = [rows EXCEPT ![k].rhsIndicator = value]
    /\ UNCHANGED <<appVars, loginVars, pageVars, strategyName, strategyType,
                   entryConditions, exitStrategy, btExitStrategy, pageLocal, now>>

\* the operator select keeps the option chosen; it has no handler
selectOperator(k, value) ==
    /\ BuilderMounted
    /\ k \in 1..Len(rows)
    /\ value # rows[k].operator
    /\ countEdit
    /\ rows' = [rows EXCEPT ![k].operator = value]
    /\ UNCHANGED <<appVars, loginVars, pageVars, strategyName, strategyType,
                   entryConditions, exitStrategy, btExitStrategy, pageLocal,
                   now>>

(***************************************************************************)
(* ExitStrategy: the shared component, rendered by StrategyBuilder with    *)
(* (exitStrategy, setExitStrategy) and by Backtester with its own pair.    *)
(***************************************************************************)
ExitStrategyMounted == BuilderMounted \/ BacktesterMounted

\* props.settings of the mounted ExitStrategy
settings == IF BuilderMounted THEN exitStrategy ELSE btExitStrategy

\* settings.type === t
typeIs(policy, t) == "type" \in DOMAIN policy /\ policy.type = t

\* the fields in which a policy differs from the one Backtester starts with
changedFields(policy) ==
    {field \in DOMAIN policy : policy[field] # defaultExitStrategy[field]}

\* props.onChange of the mounted ExitStrategy; the Backtester's policy is
\* explored up to MaxEdits + 1 changed fields
onChange(newSettings) ==
    /\ ExitStrategyMounted
    /\ IF BuilderMounted
       THEN /\ countEdit
            /\ exitStrategy' = newSettings
            /\ UNCHANGED btExitStrategy
       ELSE /\ Cardinality(changedFields(newSettings)) <= MaxEdits + 1
            /\ btExitStrategy' = newSettings
            /\ UNCHANGED <<exitStrategy, edits>>
    /\ UNCHANGED <<appVars, loginVars, pageVars, strategyName, strategyType,
                   entryConditions, rows, pageLocal, now>>

\* the radio handler forgetting to spread the current settings
selectExitTypeDroppingFields(t) ==
    /\ ExitStrategyMounted
    /\ ~typeIs(settings, t)
    /\ onChange([type |-> t])

\* the radio buttons: a radio fires onChange when it becomes checked
selectExitType(t) ==
    /\ ExitStrategyMounted
    /\ ~typeIs(settings, t)
    /\ onChange(Spread(settings, "type", t))

\* the magnitude inputs and unit selects are disabled on the inactive branch
setSlValue(text) ==
    /\ ExitStrategyMounted
    /\ typeIs(settings, "sl")
    /\ onChange(Spread(settings, "slValue", parseFloatOrZero(text)))

setSlUnit(unit) ==
    /\ ExitStrategyMounted
    /\ typeIs(settings, "sl")
    /\ onChange(Spread(settings, "slUnit", unit))

setTslValue(text) ==
    /\ ExitStrategyMounted
    /\ typeIs(settings, "tsl")
    /\ onChange(Spread(settings, "tslValue", parseFloatOrZero(text)))

setTslUnit(unit) ==
    /\ ExitStrategyMounted
    /\ typeIs(settings, "tsl")
    /\ onChange(Spread(settings, "tslUnit", unit))

(***************************************************************************)
(* Screener.                                                               *)
(***************************************************************************)
screenerAddCondition ==
    /\ ScreenerMounted
    /\ Len(scanConditions) < MaxScanConditions
    /\ scanConditions' = Append(scanConditions, screenerCondition(now))
    /\ scanRows' = Append(scanRows, initialRow(screenerCondition(now)))
    /\ UNCHANGED <<appVars, loginVars, pageVars, builderVars, btExitStrategy,
                   results, backtesterVars, activeSessions, bannerVars, now,
                   edits>>

screenerRemoveCondition(k) ==
    /\ ScreenerMounted
    /\ k \in 1..Len(scanConditions)
    /\ scanConditions' = conditionsAfterRemove(scanConditions,
                                               scanConditions[k].id)
    /\ scanRows' = rowsAfterRemove(scanConditions, scanRows,
                                   scanConditions[k].id)
    /\ UNCHANGED <<appVars, loginVars, pageVars, builderVars, btExitStrategy,
                   results, backtesterVars, activeSessions, bannerVars, now,
                   edits>>

\* handleRunScan with the result list depending on the conditions
resultsOfScanFiltered(conditions) ==
    SubSeq(mockScreenerResults, 1, Len(conditions))

\* what handleRunScan passes to setResults
resultsOfScan(conditions) == mockScreenerResults

handleRunScan ==
    /\ ScreenerMounted
    /\ results' = resultsOfScan(scanConditions)
    /\ UNCHANGED <<appVars, loginVars, pageVars, builderVars, btExitStrategy,
                   scanConditions, scanRows, backtesterVars, activeSessions,
                   bannerVars, now, edits>>

(***************************************************************************)
(* Backtester.                                                             *)
(***************************************************************************)
backtesterAddCondition ==
    /\ BacktesterMounted
    /\ Len(btEntryConditions) < MaxConditions
    /\ btEntryConditions' = Append(btEntryConditions, backtesterCondition(now))
    /\ btRows' = Append(btRows, initialRow(backtesterCondition(now)))
    /\ UNCHANGED <<appVars, loginVars, pageVars, builderVars, btExitStrategy,
                   screenerVars, result, tradeSide, assetType, activeSessions,
                   bannerVars, now, edits>>

backtesterRemoveCondition(k) ==
    /\ BacktesterMounted
    /\ k \in 1..Len(btEntryConditions)
    /\ btEntryConditions' = conditionsAfterRemove(btEntryConditions,
                                                  btEntryConditions[k].id)
    /\ btRows' = rowsAfterRemove(btEntryConditions, btRows,
                                 btEntryConditions[k].id)
    /\ UNCHANGED <<appVars, loginVars, pageVars, builderVars, btExitStrategy,
                   screenerVars, result, tradeSide, assetType, activeSessions,
                   bannerVars, now, edits>>

setTradeSide(side) ==
    /\ BacktesterMounted
    /\ side # tradeSide
    /\ tradeSide' = side
    /\ UNCHANGED <<appVars, loginVars, pageVars, builderVars, btExitStrategy,
                   screenerVars, result, assetType, btEntryConditions, btRows,
                   activeSessions, bannerVars, now, edits>>

setAssetType(type) ==
    /\ BacktesterMounted
    /\ type # assetType
    /\ assetType' = type
    /\ UNCHANGED <<appVars, loginVars, pageVars, builderVars, btExitStrategy,
                   screenerVars, result, tradeSide, btEntryConditions, btRows,
                   activeSessions, bannerVars, now, edits>>

\* what handleRunBacktest passes to setResult
resultOfBacktest(conditions, policy, side, asset) == mockBacktestResult

handleRunBacktest ==
    /\ BacktesterMounted
    /\ result' = resultOfBacktest(btEntryConditions, btExitStrategy, tradeSide,
                                  assetType)
    /\ UNCHANGED <<appVars, loginVars, pageVars, builderVars, btExitStrategy,
                   screenerVars, tradeSide, assetType, btEntryConditions,
                   btRows, activeSessions, bannerVars, now, edits>>

(***************************************************************************)
(* The ConditionRows of Screener and Backtester.                           *)
(***************************************************************************)
PageRowsMounted == ScreenerMounted \/ BacktesterMounted

pageRows == IF ScreenerMounted THEN scanRows ELSE btRows

\* a change of the state of the rows on screen; the conditions stay
setPageRows(newRows) ==
    /\ PageRowsMounted
    /\ countEdit
    /\ IF ScreenerMounted
       THEN scanRows' = newRows /\ UNCHANGED btRows
       ELSE btRows' = newRows /\ UNCHANGED scanRows
    /\ UNCHANGED <<appVars, loginVars, pageVars, builderVars, btExitStrategy,
                   results, scanConditions, result, tradeSide, assetType,
                   btEntryConditions, activeSessions, bannerVars, now>>

rowSetLhsIndicator(k, value) ==
    /\ PageRowsMounted
    /\ k \in 1..Len(pageRows)
    /\ value # pageRows[k].lhsIndicator
    /\ setPageRows([pageRows EXCEPT ![k].lhsIndicator = value])

rowSetRhsValueType(k, value) ==
    /\ PageRowsMounted
    /\ k \in 1..Len(pageRows)
    /\ value # pageRows[k].rhsValueType
    /\ setPageRows([pageRows EXCEPT ![k].rhsValueType = value])

rowSetRhsIndicator(k, value) ==
    /\ PageRowsMounted
    /\ k \in 1..Len(pageRows)
    /\ pageRows[k].rhsValueType = "indicator"
    /\ value # pageRows[k].rhsIndicator
    /\ setPageRows([pageRows EXCEPT ![k].rhsIndicator = value])

rowSelectOperator(k, value) ==
    /\ PageRowsMounted
    /\ k \in 1..Len(pageRows)
    /\ value # pageRows[k].operator
    /\ setPageRows([pageRows EXCEPT ![k].operator = value])

(***************************************************************************)
(* PaperTradingPage.                                                       *)
(***************************************************************************)
\* activeSessions.find(s => s.id === id)
hasSession(sessions, id) == \E j \in 1..Len(sessions) : sessions[j].id = id

\* startTrading without its look-up of an existing session
sessionsAfterStartUnguarded(sessions, strategy) ==
    Append(sessions,
           [id |-> strategy.id, name |-> strategy.name,
            status |-> "active", pnl |-> 0, trades |-> 0,
            symbol |-> "NIFTY 50"])

\* the collection startTrading stores (pnl 0.0, trades 0)
sessionsAfterStart(sessions, strategy) ==
    IF hasSession(sessions, strategy.id) THEN sessions
    ELSE Append(sessions,
                [id |-> strategy.id, name |-> strategy.name,
                 status |-> "active", pnl |-> 0, trades |-> 0,
                 symbol |-> "NIFTY 50"])

\* the Paper Trade button of a strategy is disabled while it has a session
startTrading(k) ==
    /\ PaperTradingMounted
    /\ k \in 1..Len(savedStrategies)
    /\ ~hasSession(activeSessions, savedStrategies[k].id)
    /\ activeSessions' = sessionsAfterStart(activeSessions, savedStrategies[k])
    /\ UNCHANGED <<appVars, loginVars, pageVars, builderVars, btExitStrategy,
                   screenerVars, backtesterVars, bannerVars, now, edits>>

\* activeSessions.filter(s => s.id !== id)
sessionsAfterStop(sessions, id) == SelectSeq(sessions, LAMBDA s : s.id # id)

stopTrading(k) ==
    /\ PaperTradingMounted
    /\ k \in 1..Len(activeSessions)
    /\ activeSessions' = sessionsAfterStop(activeSessions, activeSessions[k].id)
    /\ UNCHANGED <<appVars, loginVars, pageVars, builderVars, btExitStrategy,
                   screenerVars, backtesterVars, bannerVars, now, edits>>

(***************************************************************************)
(* ProfilePage and SettingsPage: the save handlers and their timers.  A    *)
(* timer holds the page that set it, the seconds left until its callback   *)
(* runs, and whether the component that set it is still mounted.           *)
(***************************************************************************)
newTimer(page) == [page |-> page, remaining |-> BannerDelay, live |-> TRUE]

profileHandleSave ==
    /\ ProfileMounted
    /\ Len(timers) < MaxTimers
    /\ profileIsSaved' = TRUE
    /\ timers' = Append(timers, newTimer("profile"))
    /\ UNCHANGED <<appVars, loginVars, pageVars, builderVars, btExitStrategy,
                   screenerVars, backtesterVars, activeSessions,
                   settingsIsSaved, now, edits>>

settingsHandleSave ==
    /\ SettingsMounted
    /\ Len(timers) < MaxTimers
    /\ settingsIsSaved' = TRUE
    /\ timers' = Append(timers, newTimer("settings"))
    /\ UNCHANGED <<appVars, loginVars, pageVars, builderVars, btExitStrategy,
                   screenerVars, backtesterVars, activeSessions,
                   profileIsSaved, now, edits>>

withoutTimer(pending, k) ==
    SubSeq(pending, 1, k - 1) \o SubSeq(pending, k + 1, Len(pending))

\* the callback run without waiting for the delay
timerCallbackEarly(k) ==
    /\ k \in 1..Len(timers)
    /\ timers' = withoutTimer(timers, k)
    /\ profileIsSaved' =
          IF timers[k].live /\ timers[k].page = "profile" THEN FALSE
          ELSE profileIsSaved
    /\ settingsIsSaved' =
          IF timers[k].live /\ timers[k].page = "settings" THEN FALSE
          ELSE settingsIsSaved
    /\ UNCHANGED <<appVars, loginVars, pageVars, builderVars, btExitStrategy,
                   screenerVars, backtesterVars, activeSessions, now, edits>>

\* () => setIsSaved(false), run by the event loop when the delay is over;
\* setting the state of an unmounted component changes nothing
timerCallback(k) ==
    /\ k \in 1..Len(timers)
    /\ timers[k].remaining = 0
    /\ \A j \in 1..(k - 1) : timers[j].remaining # 0
    /\ timers' = withoutTimer(timers, k)
    /\ profileIsSaved' =
          IF timers[k].live /\ timers[k].page = "profile" THEN FALSE
          ELSE profileIsSaved
    /\ settingsIsSaved' =
          IF timers[k].live /\ timers[k].page = "settings" THEN FALSE
          ELSE settingsIsSaved
    /\ UNCHANGED <<appVars, loginVars, pageVars, builderVars, btExitStrategy,
                   screenerVars, backtesterVars, activeSessions, now, edits>>

\* one second passes; a callback that is due runs first
Elapse ==
    /\ timers # <<>>
    /\ \A k \in 1..Len(timers) : timers[k].remaining > 0
    /\ timers' = [k \in 1..Len(timers) |->
                     [timers[k] EXCEPT !.remaining = @ - 1]]
    /\ UNCHANGED <<appVars, loginVars, pageVars, builderVars, btExitStrategy,
                   screenerVars, backtesterVars, activeSessions,
                   profileIsSaved, settingsIsSaved, now, edits>>

(***************************************************************************)
(* The specifications.  Spec explores the login screen, My Strategies with *)
(* the builder, and the ExitStrategy component.  PagesSpec explores the    *)
(* Screener, the Backtester and Paper Trading next to the deletion of      *)
(* strategies.  BannerSpec explores the Profile and Settings pages and the *)
(* timers.  The pages share no state but savedStrategies.                  *)
(***************************************************************************)
Next ==
    \/ Tick
    \/ setView
    \/ \E username \in CredentialInputs, password \in CredentialInputs :
          handleLogin(username, password)
    \/ handleSignUp
    \/ GoogleLogin
    \/ handleSignOut
    \/ \E tab \in TabInputs : setActiveTab(tab)
    \/ handleCreateNew
    \/ \E k \in 1..MaxStrategies : handleEdit(k)
    \/ \E k \in 1..MaxStrategies : handleDelete(k)
    \/ handleSaveClick
    \/ backtestButton
    \/ onCancel
    \/ \E text \in NameInputs : setStrategyName(text)
    \/ \E type \in {"buy", "sell"} : setStrategyType(type)
    \/ addCondition
    \/ \E k \in 1..MaxConditions : removeCondition(k)
    \/ \E k \in 1..MaxConditions, value \in IndicatorInputs :
          setLhsIndicator(k, value)
    \/ \E k \in 1..MaxConditions, value \in {"indicator", "number"} :
          setRhsValueType(k, value)
    \/ \E k \in 1..MaxConditions, value \in IndicatorInputs :
          setRhsIndicator(k, value)
    \/ \E k \in 1..MaxConditions, value \in OperatorInputs :
          selectOperator(k, value)
    \/ \E t \in {"sl", "tsl"} : selectExitType(t)
    \/ \E text \in MagnitudeTexts : setSlValue(text)
    \/ \E unit \in UnitInputs : setSlUnit(unit)
    \/ \E text \in MagnitudeTexts : setTslValue(text)
    \/ \E unit \in UnitInputs : setTslUnit(unit)

Spec == Init /\ [][Next]_vars

PagesNext ==
    \/ Tick
    \/ \E username \in CredentialInputs, password \in CredentialInputs :
          handleLogin(username, password)
    \/ handleSignOut
    \/ \E tab \in PageTabInputs : setActiveTab(tab)
    \/ \E k \in 1..MaxStrategies : handleDelete(k)
    \/ screenerAddCondition
    \/ \E k \in 1..MaxScanConditions : screenerRemoveCondition(k)
    \/ handleRunScan
    \/ backtesterAddCondition
    \/ \E k \in 1..MaxConditions : backtesterRemoveCondition(k)
    \/ \E side \in {"buy", "sell"} : setTradeSide(side)
    \/ \E type \in {"index", "stock"} : setAssetType(type)
    \/ handleRunBacktest
    \/ \E t \in {"sl", "tsl"} : selectExitType(t)
    \/ \E k \in 1..MaxScanConditions, value \in IndicatorInputs :
          rowSetLhsIndicator(k, value)
    \/ \E k \in 1..MaxScanConditions, value \in {"indicator", "number"} :
          rowSetRhsValueType(k, value)
    \/ \E k \in 1..MaxScanConditions, value \in IndicatorInputs :
          rowSetRhsIndicator(k, value)
    \/ \E k \in 1..MaxScanConditions, value \in OperatorInputs :
          rowSelectOperator(k, value)
    \/ \E k \in 1..MaxStrategies : startTrading(k)
    \/ \E k \in 1..MaxStrategies : stopTrading(k)

PagesSpec == Init /\ [][PagesNext]_vars

BannerNext ==
    \/ \E username \in CredentialInputs, password \in CredentialInputs :
          handleLogin(username, password)
    \/ handleSignOut
    \/ \E tab \in BannerTabInputs : setActiveTab(tab)
    \/ profileHandleSave
    \/ settingsHandleSave
    \/ \E k \in 1..MaxTimers : timerCallback(k)
    \/ Elapse

BannerSpec == Init /\ [][BannerNext]_vars

(***************************************************************************)
(* Properties.                                                             *)
(***************************************************************************)
\* policy[field] is present and positive
positive(policy, field) == field \in DOMAIN policy /\ policy[field] > 0

\* both magnitudes of an exit policy are present and positive
PositiveMagnitudes(policy) ==
    positive(policy, "slValue") /\ positive(policy, "tslValue")

\* an indicator reference lacks a parameter it requires
missingParams(value, params) ==
    \/ needsPeriod(value) /\ ~positive(params, "period")
    \/ /\ needsSupertrendParams(value)
       /\ ~(positive(params, "period") /\ positive(params, "multiplier"))

\* the draft holds a condition whose subject (as chosen in its row) or
\* comparand (as held in the condition) lacks a required parameter
DraftMissingParams ==
    \E k \in 1..Len(entryConditions) :
        \/ missingParams(rows[k].lhsIndicator, rowParams)
        \/ /\ entryConditions[k].valueType = "indicator"
           /\ missingParams(entryConditions[k].valueProperty,
                            entryConditions[k].valueParams)

InvalidDraft ==
    \/ strategyName = ""
    \/ entryConditions = <<>>
    \/ ~PositiveMagnitudes(exitStrategy)

\* C1: pressing Save on a draft with zero conditions neither adds the draft
\* to savedStrategies nor replaces an existing strategy.
C1_ZeroConditionsRejected ==
    [][(handleSaveClick /\ entryConditions = <<>>)
          => savedStrategies' = savedStrategies]_vars

\* C2: pressing Save on a draft whose name is empty leaves savedStrategies
\* unchanged.
C2_EmptyNameRejected ==
    [][(handleSaveClick /\ strategyName = "")
          => savedStrategies' = savedStrategies]_vars

\* C3: pressing Save on a draft whose exit policy has a missing or
\* non-positive slValue or tslValue does not store the strategy, whichever
\* branch is active.
C3_NonPositiveMagnitudeRejected ==
    [][(handleSaveClick /\ ~PositiveMagnitudes(exitStrategy))
          => savedStrategies' = savedStrategies]_vars

\* C4: pressing Save on a draft with a condition that references an
\* indicator whose required parameter is absent or non-positive does not
\* store the strategy.
C4_MissingParameterRejected ==
    [][(handleSaveClick /\ DraftMissingParams)
          => savedStrategies' = savedStrategies]_vars

\* C5: after pressing Save on an invalid draft the view remains 'builder'
\* and the draft fields are unchanged.
C5_FormStaysOpen ==
    [][(handleSaveClick /\ InvalidDraft)
          => /\ view' = "builder"
             /\ UNCHANGED <<strategyName, strategyType, entryConditions,
                            exitStrategy>>]_vars

\* C6: in every reachable state every exit policy (the Backtester's, the
\* builder draft's, that of every saved strategy) has type 'sl' or 'tsl'.
oneBranchActive(policy) == typeIs(policy, "sl") \/ typeIs(policy, "tsl")

C6_ExactlyOneBranchActive ==
    /\ oneBranchActive(btExitStrategy)
    /\ BuilderMounted => oneBranchActive(exitStrategy)
    /\ \A k \in 1..Len(savedStrategies) :
          oneBranchActive(savedStrategies[k].exitStrategy)

\* C7: while an ExitStrategy stays on screen, a change of the exit type
\* changes nothing but the type field, and the magnitude and unit of a
\* branch that is not the active one do not change.
sameField(p, q, field) ==
    /\ (field \in DOMAIN p) = (field \in DOMAIN q)
    /\ field \in DOMAIN p => p[field] = q[field]

sameType(p, q) == sameField(p, q, "type")

ExitStrategyStays ==
    \/ BuilderMounted /\ BuilderMounted'
    \/ BacktesterMounted /\ BacktesterMounted'

C7_InactiveBranchRetained ==
    [][ExitStrategyStays =>
          /\ ~sameType(settings, settings') =>
                \A field \in {"slValue", "slUnit", "tslValue", "tslUnit"} :
                    sameField(settings, settings', field)
          /\ ~typeIs(settings, "sl") =>
                /\ sameField(settings, settings', "slValue")
                /\ sameField(settings, settings', "slUnit")
          /\ ~typeIs(settings, "tsl") =>
                /\ sameField(settings, settings', "tslValue")
                /\ sameField(settings, settings', "tslUnit")]_vars

\* the trailing branch has been selected and the stop-loss branch is kept
C7_Witness ==
    /\ ExitStrategyMounted
    /\ settings = [type |-> "tsl", slValue |-> 20, slUnit |-> "percent",
                   tslValue |-> 15, tslUnit |-> "percent"]

\* C8: saving a draft that has no id appends exactly one strategy, carrying
\* the id read from the clock and the draft's name, direction, conditions
\* and exit policy, and leaves the strategies saved before, and their
\* order, unchanged.
C8_CreationAppends ==
    [][(handleSaveClick /\ strategyToEdit = Null) =>
          LET n == Len(savedStrategies)
              created == savedStrategies'[n + 1]
          IN  /\ Len(savedStrategies') = n + 1
              /\ \A k \in 1..n : savedStrategies'[k] = savedStrategies[k]
              /\ DOMAIN created = {"id", "name", "strategyType",
                                   "entryConditions", "exitStrategy"}
              /\ created.id = now
              /\ created.name = strategyName
              /\ created.strategyType = strategyType
              /\ created.entryConditions = entryConditions
              /\ created.exitStrategy = exitStrategy]_vars

\* a strategy created in the builder is in the collection
C8_Witness ==
    /\ ListMounted
    /\ strategyToEdit = Null
    /\ \E k \in 1..Len(savedStrategies) :
          /\ savedStrategies[k].id >= FirstClock
          /\ savedStrategies[k].entryConditions = <<builderCondition(1)>>
          /\ savedStrategies[k].exitStrategy = defaultExitStrategy

\* C9: saving a draft that carries id i puts the whole draft, with id i, in
\* the place of every entry whose id is i, leaves every entry with another
\* id unchanged, and leaves the length of the collection unchanged.
C9_EditReplacesWholesale ==
    [][(handleSaveClick /\ strategyToEdit # Null) =>
          LET i == strategyToEdit.id
          IN  /\ Len(savedStrategies') = Len(savedStrategies)
              /\ \A k \in 1..Len(savedStrategies) :
                    IF savedStrategies[k].id = i
                    THEN savedStrategies'[k] =
                            [id |-> i, name |-> strategyName,
                             strategyType |-> strategyType,
                             entryConditions |-> entryConditions,
                             exitStrategy |-> exitStrategy]
                    ELSE savedStrategies'[k] = savedStrategies[k]]_vars

\* an edited strategy has been saved: its entry differs from the one the
\* builder was opened with, another entry is still in the collection
C9_Witness ==
    /\ ListMounted
    /\ strategyToEdit # Null
    /\ \E k \in 1..Len(savedStrategies) :
          /\ savedStrategies[k].id = strategyToEdit.id
          /\ savedStrategies[k] # strategyToEdit
    /\ \E k \in 1..Len(savedStrategies) :
          savedStrategies[k].id # strategyToEdit.id

\* C10: handleDelete(i) leaves no strategy with id i, keeps the strategies
\* with another id unchanged and in order, changes nothing when no
\* strategy has id i; and a strategy enters the collection only by Save.
keptIndexes(strategies, id) ==
    {k \in 1..Len(strategies) : strategies[k].id # id}

\* the j-th index of a set of indexes
nthIndex(indexes, j) ==
    CHOOSE k \in indexes : Cardinality({m \in indexes : m <= k}) = j

Range(seq) == {seq[k] : k \in 1..Len(seq)}

C10_DeleteRemoves ==
    [][/\ ListMounted =>
             /\ \A k \in 1..Len(savedStrategies) :
                   handleDelete(k) =>
                      LET i == savedStrategies[k].id
                          kept == keptIndexes(savedStrategies, i)
                      IN  /\ Len(savedStrategies') = Cardinality(kept)
                          /\ \A j \in 1..Cardinality(kept) :
                                savedStrategies'[j] =
                                   savedStrategies[nthIndex(kept, j)]
             /\ \A i \in 0..(MaxClock + 1) :
                   keptIndexes(savedStrategies, i) = 1..Len(savedStrategies)
                      => strategiesAfterDelete(savedStrategies, i)
                            = savedStrategies
       /\ \/ savedStrategies' = savedStrategies
          \/ Range(savedStrategies') \subseteq Range(savedStrategies)
          \/ handleSaveClick]_vars

\* a seeded strategy has been deleted and the other one is still there
C10_Witness ==
    /\ ListMounted
    /\ savedStrategies = <<seededStrategies[1]>>

\* the label the operator select shows for a stored operator
operatorLabel(operator) ==
    CASE operator = "greater_than"  -> "Greater than"
      [] operator = "less_than"     -> "Less than"
      [] operator = "equals"        -> "Equals"
      [] operator = "crosses_above" -> "Crosses above"
      [] operator = "crosses_below" -> "Crosses below"
      [] OTHER                      -> "none"

\* the condition holds what its row shows
reflects(condition, row) ==
    /\ condition.property = row.lhsIndicator
    /\ operatorLabel(condition.operator) = row.operator
    /\ condition.valueType = row.rhsValueType
    /\ row.rhsValueType = "indicator" =>
          condition.valueProperty = row.rhsIndicator

\* C11: the strategy that Save stores holds, condition by condition, the
\* subject, operator, comparand type and comparand indicator that the rows
\* of the builder show when Save is pressed.
C11_RowEditsStored ==
    [][handleSaveClick =>
          \E j \in 1..Len(savedStrategies') :
              LET stored == savedStrategies'[j].entryConditions
              IN  /\ savedStrategies'[j].name = strategyName
                  /\ Len(stored) = Len(rows)
                  /\ \A k \in 1..Len(rows) : reflects(stored[k], rows[k])]_vars

\* C12: savedStrategies changes only by Save and Delete, and activeSessions
\* only by startTrading and stopTrading: in particular no tab navigation
\* and no sign-out changes either collection.
C12_CollectionsApplicationWide ==
    [][/\ savedStrategies' # savedStrategies =>
             handleSaveClick \/ \E k \in 1..Len(savedStrategies) : handleDelete(k)
       /\ activeSessions' # activeSessions =>
             \/ \E k \in 1..Len(savedStrategies) : startTrading(k)
             \/ \E k \in 1..Len(activeSessions) : stopTrading(k)]_vars

\* the state of the components (the clock, the timer queue and the edit
\* count are not component state)
componentState ==
    <<appVars, loginVars, pageVars, builderVars, btExitStrategy, screenerVars,
      backtesterVars, activeSessions, profileIsSaved, settingsIsSaved>>

\* the handling of one user event on the login screen, the sidebar and
\* header, the Profile page or the Settings page
BannerUserEvent ==
    \/ \E username \in CredentialInputs, password \in CredentialInputs :
          handleLogin(username, password)
    \/ handleSignOut
    \/ \E tab \in BannerTabInputs : setActiveTab(tab)
    \/ profileHandleSave
    \/ settingsHandleSave

\* C13: every step that changes the state of a component (isSaved of
\* ProfilePage and of SettingsPage in particular) is the handling of a user
\* event.
C13_MutationsOnlyInUserEvents ==
    [][componentState' # componentState => BannerUserEvent]_vars

\* a timer callback of a mounted page is due and the only change of
\* component state is that page's isSaved going from true to false
BannerHidden ==
    \/ /\ profileIsSaved /\ ~profileIsSaved'
       /\ \E k \in 1..Len(timers) :
             timers[k] = [page |-> "profile", remaining |-> 0, live |-> TRUE]
       /\ UNCHANGED <<appVars, loginVars, pageVars, builderVars,
                      btExitStrategy, screenerVars, backtesterVars,
                      activeSessions, settingsIsSaved>>
    \/ /\ settingsIsSaved /\ ~settingsIsSaved'
       /\ \E k \in 1..Len(timers) :
             timers[k] = [page |-> "settings", remaining |-> 0, live |-> TRUE]
       /\ UNCHANGED <<appVars, loginVars, pageVars, builderVars,
                      btExitStrategy, screenerVars, backtesterVars,
                      activeSessions, profileIsSaved>>

\* C13 as amended: every step that changes the state of a component is the
\* handling of a user event, or is the due timer callback of a save of the
\* mounted Profile or Settings page, which changes nothing but that page's
\* isSaved, from true to false.
C13_MutationsInUserEventsOrTimer ==
    [][componentState' # componentState =>
          BannerUserEvent \/ BannerHidden]_vars

\* Settings was saved twice; the callback of the first save has hidden the
\* banner while the timer of the second save is still pending
C13_Witness ==
    /\ SettingsMounted
    /\ ~settingsIsSaved
    /\ Len(timers) = 1
    /\ timers[1].live
    /\ timers[1].page = "settings"

\* C14: Run Scan stores the fixed result list and Run Backtest the fixed
\* result object, whatever the conditions, exit policy, trade side and asset
\* type are, and change nothing else; while the page stays on screen the
\* results change in no other way.
C14_RunSubstitutesMock ==
    [][/\ handleRunScan =>
             /\ results' = mockScreenerResults
             /\ UNCHANGED <<scanConditions, scanRows, appVars, pageVars,
                            builderVars, btExitStrategy, backtesterVars,
                            activeSessions, bannerVars>>
       /\ handleRunBacktest =>
             /\ result' = mockBacktestResult
             /\ UNCHANGED <<tradeSide, assetType, btEntryConditions, btRows,
                            btExitStrategy, appVars, pageVars, builderVars,
                            screenerVars, activeSessions, bannerVars>>
       /\ (ScreenerMounted /\ ScreenerMounted' /\ results' # results) =>
             results' = mockScreenerResults
       /\ (BacktesterMounted /\ BacktesterMounted' /\ result' # result) =>
             result' = mockBacktestResult]_vars

\* a backtest was run on an empty condition list, with the trailing stop,
\* the sell side and the stock asset type selected
C14_Witness ==
    /\ BacktesterMounted
    /\ result = mockBacktestResult
    /\ btEntryConditions = <<>>
    /\ typeIs(btExitStrategy, "tsl")
    /\ tradeSide = "sell"
    /\ assetType = "stock"

\* a stored strategy that the spec's validate accepts
ValidStrategy(s) ==
    /\ s.name # ""
    /\ s.strategyType \in {"buy", "sell"}
    /\ s.entryConditions # <<>>
    /\ \A k \in 1..Len(s.entryConditions) :
          LET c == s.entryConditions[k]
          IN  /\ ~missingParams(c.property, rowParams)
              /\ c.valueType = "indicator" =>
                    ~missingParams(c.valueProperty, c.valueParams)
    /\ oneBranchActive(s.exitStrategy)
    /\ PositiveMagnitudes(s.exitStrategy)

MalformedRecord(s) ==
    \/ {"name", "strategyType", "entryConditions", "exitStrategy"}
          \ DOMAIN s # {}
    \/ {"type", "slValue", "slUnit", "tslValue", "tslUnit"}
          \ DOMAIN s.exitStrategy # {}

\* C16: handleEdit of a malformed stored record does not open the builder
\* on it: the list stays on screen and no draft is made of the record.
C16_LoadFailsClosed ==
    [][\A k \in 1..Len(savedStrategies) :
          (handleEdit(k) /\ MalformedRecord(savedStrategies[k])) =>
              /\ view' = "list"
              /\ UNCHANGED builderVars]_vars

\* the parameters a condition carries for its subject: a condition has
\* valueParams for its comparand and no field for the subject's parameters
subjectParams(condition) ==
    IF "params" \in DOMAIN condition THEN condition.params ELSE EmptyObj

\* every indicator reference of the condition carries its parameters
carriesParams(condition) ==
    /\ ~missingParams(condition.property, subjectParams(condition))
    /\ condition.valueType = "indicator" =>
          ~missingParams(condition.valueProperty, condition.valueParams)

\* every condition held anywhere in the application
heldConditions ==
    Range(scanConditions) \cup Range(btEntryConditions)
       \cup Range(entryConditions)
       \cup UNION {Range(savedStrategies[k].entryConditions) :
                      k \in 1..Len(savedStrategies)}

\* C18: in every reachable state every condition of the Screener, the
\* Backtester, the builder draft and the saved strategies carries, for each
\* indicator it references that needs parameters, all of them with a
\* positive value.
C18_IndicatorParamsCarried ==
    \A c \in heldConditions : carriesParams(c)

\* the condition groups on screen, each as its conditions and its rows
shownGroups ==
    (IF ScreenerMounted THEN {<<scanConditions, scanRows>>} ELSE {})
       \cup (IF BacktesterMounted THEN {<<btEntryConditions, btRows>>} ELSE {})
       \cup (IF BuilderMounted THEN {<<entryConditions, rows>>} ELSE {})

storedOperators ==
    {"greater_than", "less_than", "equals", "crosses_above", "crosses_below"}

\* C19: in every reachable state the operator of every condition is one of
\* the five operators, and the operator select of every row on screen shows
\* the operator of the row's condition.
C19_OperatorShownIsStored ==
    /\ \A c \in heldConditions : c.operator \in storedOperators
    /\ \A g \in shownGroups :
          \A k \in 1..Len(g[1]) :
              g[2][k].operator = operatorLabel(g[1][k].operator)

\* C20: in every reachable state no row on screen shows a crossing operator
\* together with the comparand type 'number'.
C20_NoCrossingAgainstNumber ==
    \A g \in shownGroups :
        \A k \in 1..Len(g[2]) :
            ~(/\ g[2][k].operator \in {"Crosses above", "Crosses below"}
              /\ g[2][k].rhsValueType = "number")

\* the ids of the elements of a list are pairwise distinct
distinctIds(list) ==
    \A j, k \in 1..Len(list) : list[j].id = list[k].id => j = k

\* C21: in every reachable state the ids of the strategies in
\* savedStrategies are pairwise distinct.
C21_StrategyIdsDistinct == distinctIds(savedStrategies)

\* the list without its k-th element
withoutElement(list, k) ==
    SubSeq(list, 1, k - 1) \o SubSeq(list, k + 1, Len(list))

\* C22: in the Screener and in the Backtester the condition ids are
\* pairwise distinct, and removing the k-th condition leaves the list
\* without its k-th element: one condition shorter, the others unchanged
\* and in order.
C22_RemoveRemovesOne ==
    [][/\ distinctIds(scanConditions') /\ distinctIds(btEntryConditions')
       /\ \A k \in 1..Len(scanConditions) :
             screenerRemoveCondition(k) =>
                scanConditions' = withoutElement(scanConditions, k)
       /\ \A k \in 1..Len(btEntryConditions) :
             backtesterRemoveCondition(k) =>
                btEntryConditions' = withoutElement(btEntryConditions, k)]_vars

\* C23: while the Paper Trading page is on screen every session in
\* activeSessions has the id of a strategy in savedStrategies.
C23_SessionsReferToStrategies ==
    PaperTradingMounted =>
        \A j \in 1..Len(activeSessions) :
            \E k \in 1..Len(savedStrategies) :
                savedStrategies[k].id = activeSessions[j].id

\* C24: the session ids are pairwise distinct; startTrading applied to a
\* strategy that has a session gives the same sessions, and pressed for a
\* strategy without one it appends one session of that strategy with pnl 0
\* and 0 trades; stopTrading of the k-th session leaves the list without
\* its k-th element.
C24_OneSessionPerStrategy ==
    [][/\ distinctIds(activeSessions')
       /\ \A k \in 1..Len(savedStrategies) :
             /\ hasSession(activeSessions, savedStrategies[k].id) =>
                   sessionsAfterStart(activeSessions, savedStrategies[k])
                      = activeSessions
             /\ startTrading(k) =>
                   /\ Len(activeSessions') = Len(activeSessions) + 1
                   /\ SubSeq(activeSessions', 1, Len(activeSessions))
                         = activeSessions
                   /\ activeSessions'[Len(activeSessions')].id
                         = savedStrategies[k].id
                   /\ activeSessions'[Len(activeSessions')].pnl = 0
                   /\ activeSessions'[Len(activeSessions')].trades = 0
       /\ \A k \in 1..Len(activeSessions) :
             stopTrading(k) =>
                activeSessions' = withoutElement(activeSessions, k)]_vars

\* the seeded session was stopped and a session of strategy 1 was started
C24_Witness ==
    /\ PaperTradingMounted
    /\ Len(activeSessions) = 1
    /\ activeSessions[1].id = seededStrategies[1].id
    /\ activeSessions[1].pnl = 0
    /\ activeSessions[1].trades = 0

\* a login submission with other credentials leaves isAuthenticated false
\* and sets the error message
rejectsOtherCredentials ==
    \A username, password \in CredentialInputs :
        (~(username = "admin" /\ password = "admin")
            /\ handleLogin(username, password)) =>
           /\ ~isAuthenticated'
           /\ error' = "Invalid username or password."

\* C25: isAuthenticated becomes true only in a login submission with
\* username and password 'admin'; a submission with other credentials
\* leaves it false and sets the error message.
C25_OnlyAdminLogin ==
    [][/\ (~isAuthenticated /\ isAuthenticated') =>
             handleLogin("admin", "admin")
       /\ rejectsOtherCredentials]_vars

\* C25 (amended): isAuthenticated becomes true only in a login submission
\* with username and password 'admin', in a sign-up submission or in the
\* Continue with Google button; a login submission with other credentials
\* leaves it false and sets the error message.
C25_OnlyLoginScreenPaths ==
    [][/\ (~isAuthenticated /\ isAuthenticated') =>
             (handleLogin("admin", "admin") \/ handleSignUp \/ GoogleLogin)
       /\ rejectsOtherCredentials]_vars

\* a login submission with other credentials was rejected
C25_Witness ==
    /\ ~isAuthenticated
    /\ loginView = "login"
    /\ error = "Invalid username or password."

\* C26: while isAuthenticated is false the tab is the dashboard and neither
\* the tab nor the strategies nor any page state changes; handleSignOut
\* sets isAuthenticated false and activeTab 'dashboard'; the tab right
\* after a login is the dashboard.
C26_AuthenticationGates ==
    [][/\ ~isAuthenticated =>
             /\ activeTab = "dashboard"
             /\ UNCHANGED <<activeTab, savedStrategies, pageVars,
                            builderVars, btExitStrategy, pageLocal>>
       /\ handleSignOut =>
             (~isAuthenticated' /\ activeTab' = "dashboard")
       /\ (~isAuthenticated /\ isAuthenticated') =>
             activeTab' = "dashboard"]_vars

\* signed out after both seeded strategies were deleted
C26_Witness ==
    /\ ~isAuthenticated
    /\ savedStrategies = <<>>

\* C27: signing out and logging in, by whichever path, leave
\* savedStrategies unchanged.
C27_SignOutKeepsStrategies ==
    [][/\ handleSignOut => savedStrategies' = savedStrategies
       /\ isAuthenticated' # isAuthenticated =>
             savedStrategies' = savedStrategies]_vars

\* signed out with a strategy created before, and about to log in again
\* through the sign-up form
C27_Witness ==
    /\ ~isAuthenticated
    /\ loginView = "signup"
    /\ \E k \in 1..Len(savedStrategies) :
          savedStrategies[k].id >= FirstClock

\* the isSaved state of a page
isSavedOf(page) ==
    IF page = "profile" THEN profileIsSaved ELSE settingsIsSaved

\* the banner of a page on screen is shown while a timer set by a save on
\* it has time left
BannerKept ==
    \A k \in 1..Len(timers) :
        (timers[k].live /\ timers[k].remaining > 0) =>
            isSavedOf(timers[k].page)

\* C28: a save sets isSaved, isSaved stays true until the delay has passed
\* since the most recent save on the page, and no timer callback runs for a
\* page that has been left.
C28_BannerFullDelay ==
    [][/\ profileHandleSave => profileIsSaved'
       /\ settingsHandleSave => settingsIsSaved'
       /\ BannerKept'
       /\ \A k \in 1..Len(timers) : timerCallback(k) => timers[k].live]_vars

\* C29: saving a strategy loaded for editing with nothing changed leaves
\* savedStrategies as it was, and so does Cancel.
C29_UnchangedSaveIsNoOp ==
    [][/\ (strategyToEdit # Null /\ draftData = strategyToEdit
              /\ handleSaveClick) =>
             savedStrategies' = savedStrategies
       /\ onCancel => savedStrategies' = savedStrategies]_vars

====
